---- MODULE Spec2Model ----
(***************************************************************************)
(* The LlamaPack embedding store (app/src/lancedb): LanceDbClient over a   *)
(* columnar table, the record mapper between EmbeddingRecord and Arrow     *)
(* columns, and the schema with which connect creates the table.           *)
(*                                                                         *)
(* Strings that reach the filter expression (paths) are sequences of       *)
(* characters; other strings are atomic.  A float is an integer, and a     *)
(* float array is kept run-length encoded: <<[v |-> 0, n |-> 768]>> is the *)
(* array of 768 zeros.  The encoding is canonical (no empty run, no two    *)
(* adjacent runs of one value), so two arrays are equal exactly when their *)
(* encodings are.  The storage engine is the environment: every engine     *)
(* call may fail, a vector search breaks distance ties in any order, and a *)
(* result stream is any split of the result rows into non-empty batches.   *)
(***************************************************************************)
EXTENDS Integers, Sequences, FiniteSets, TLC

EMBEDDING_DIM == 768

MaxRows == 2
MaxBatch == 2
MaxLimit == 1
UsizeBits == 16     \* width at which the model keeps usize

Callers == {"c1", "c2"}

VARIABLES
    tableSchema,   \* schema of the 'embeddings' table on disk, NoTable if absent
    rows,          \* rows of the table, in the engine's order
    client,        \* TRUE once a LanceDbClient handle exists
    pending,       \* per caller: the update_embedding call suspended at its insert
    last,          \* the call that returned last, with its result
    embedder,      \* the Embedder's last embed or embed_batch call
    ollama         \* the OllamaClient, its daemon child and the processes

\* the variables of the embedding store
storeVars == <<tableSchema, rows, client, pending, last>>

vars == <<tableSchema, rows, client, pending, last, embedder, ollama>>

-----------------------------------------------------------------------------
(* Sequences *)

RECURSIVE Flatten(_)
Flatten(ss) == IF ss = <<>> THEN <<>> ELSE Head(ss) \o Flatten(Tail(ss))

SeqsUpTo(S, n) == UNION {[1..k -> S] : k \in 0..n}

Min(a, b) == IF a <= b THEN a ELSE b

-----------------------------------------------------------------------------
(* Float arrays, run-length encoded *)

Run(v, n) == [v |-> v, n |-> n]

\* the canonical encoding of the array that the runs rs spell out
RECURSIVE Floats(_)
Floats(rs) ==
    IF rs = <<>> THEN <<>>
    ELSE IF Head(rs).n = 0 THEN Floats(Tail(rs))
    ELSE LET rest == Floats(Tail(rs))
         IN  IF rest # <<>> /\ Head(rest).v = Head(rs).v
             THEN <<Run(Head(rs).v, Head(rs).n + Head(rest).n)>> \o Tail(rest)
             ELSE <<Head(rs)>> \o rest

RECURSIVE FloatsLen(_)
FloatsLen(a) == IF a = <<>> THEN 0 ELSE Head(a).n + FloatsLen(Tail(a))

FloatsConcat(a, b) == Floats(a \o b)

RECURSIVE FloatsFlatten(_)
FloatsFlatten(as) ==
    IF as = <<>> THEN <<>> ELSE FloatsConcat(Head(as), FloatsFlatten(Tail(as)))

\* elements from..to (1-based, inclusive) of a; fewer when a is shorter
RECURSIVE FloatsSlice(_, _, _)
FloatsSlice(a, from, to) ==
    IF a = <<>> \/ to < from \/ to < 1 THEN <<>>
    ELSE IF from > Head(a).n
         THEN FloatsSlice(Tail(a), from - Head(a).n, to - Head(a).n)
    ELSE LET lo == IF from < 1 THEN 1 ELSE from
             hi == Min(to, Head(a).n)
         IN  Floats(<<Run(Head(a).v, hi - lo + 1)>>
                    \o FloatsSlice(Tail(a), 1, to - Head(a).n))

\* squared Euclidean distance of two arrays of one length
RECURSIVE Distance(_, _)
Distance(a, b) ==
    IF a = <<>> \/ b = <<>> THEN 0
    ELSE LET m == Min(Head(a).n, Head(b).n)
             d == Head(a).v - Head(b).v
         IN  d * d * m + Distance(Floats(<<Run(Head(a).v, Head(a).n - m)>> \o Tail(a)),
                                  Floats(<<Run(Head(b).v, Head(b).n - m)>> \o Tail(b)))

-----------------------------------------------------------------------------
(* Input domains *)

Vec(n, first) == Floats(<<Run(first, 1), Run(0, n - 1)>>)

PathA == <<"a">>
PathQ == <<"a", "'">>
PathQQ == <<"a", "'", "'">>
Paths == {PathA, PathQ, PathQQ}

None == <<>>
Some(s) == <<s>>

EmbeddingRecord(path, hash, embedding, language, last_modified, last_accessed, line_count, imported_by, content_preview) ==
    [path |-> path, hash |-> hash, embedding |-> embedding, language |-> language,
     last_modified |-> last_modified, last_accessed |-> last_accessed,
     line_count |-> line_count, imported_by |-> imported_by,
     content_preview |-> content_preview]

RecQ == EmbeddingRecord(PathQ, "h1", Vec(EMBEDDING_DIM, 0), "rust", 1, 2, 42,
                        <<"main.rs", "lib.rs">>, Some(""))
RecQ2 == EmbeddingRecord(PathQ, "h2", Vec(EMBEDDING_DIM, 1), "go", 3, 4, 99,
                         <<>>, None)
RecQQ == EmbeddingRecord(PathQQ, "h3", Vec(EMBEDDING_DIM, 0), "rust", 1, 2, 7,
                         <<"lib.rs">>, Some("fn main"))
RecShort == EmbeddingRecord(PathQ, "h4", Vec(EMBEDDING_DIM - 1, 0), "rust", 1, 2, 42,
                            <<"main.rs">>, None)
RecLong == EmbeddingRecord(PathQQ, "h5", Vec(EMBEDDING_DIM + 1, 1), "rust", 1, 2, 42,
                           <<>>, Some("y"))

ValidRecords == {RecQ, RecQ2, RecQQ}
Records == ValidRecords \cup {RecShort, RecLong}
Batches == SeqsUpTo(Records, MaxBatch)
Vectors == {Vec(EMBEDDING_DIM, 0), Vec(EMBEDDING_DIM, 1), Vec(EMBEDDING_DIM - 1, 0)}
\* the largest usize
USIZE_MAX == 2^UsizeBits - 1

Limits == 0..MaxLimit \cup {USIZE_MAX}

-----------------------------------------------------------------------------
(* Arrow data types, fields and schemas *)

DataType(kind, item, itemNullable, size) ==
    [kind |-> kind, item |-> item, itemNullable |-> itemNullable, size |-> size]

Utf8 == DataType("Utf8", "", FALSE, 0)
Float32 == DataType("Float32", "", FALSE, 0)
Int16 == DataType("Int16", "", FALSE, 0)
TimestampMicrosecond == DataType("Timestamp(Microsecond)", "", FALSE, 0)
FixedSizeList(item, itemNullable, size) == DataType("FixedSizeList", item, itemNullable, size)
List(item, itemNullable) == DataType("List", item, itemNullable, 0)

Field(name, dt, nullable) == [name |-> name, dt |-> dt, nullable |-> nullable]

NoTable == <<"no table">>

build_embeddings_schema ==
    << Field("path", Utf8, FALSE),
       Field("hash", Utf8, FALSE),
       Field("embedding", FixedSizeList("Float32", FALSE, EMBEDDING_DIM), FALSE),
       Field("language", Utf8, FALSE),
       Field("last_modified", TimestampMicrosecond, FALSE),
       Field("last_accessed", TimestampMicrosecond, FALSE),
       Field("line_count", Int16, FALSE),
       Field("imported_by", List("Utf8", FALSE), FALSE) >>

-----------------------------------------------------------------------------
(* Results *)

Ok(v) == [ok |-> TRUE, val |-> v, err |-> "Ok"]
Err(e) == [ok |-> FALSE, val |-> <<>>, err |-> e]

-----------------------------------------------------------------------------
(* Arrow arrays.  A primitive or string array is a sequence of cells, a    *)
(* fixed-size list array is its flat child array read in chunks of size,   *)
(* a list array is its flat child array read between consecutive offsets.  *)

Cell(v) == [null |-> FALSE, value |-> v]
NullCell == [null |-> TRUE, value |-> ""]

PrimitiveArray(dt, values) ==
    [dt |-> dt, cells |-> [i \in 1..Len(values) |-> Cell(values[i])],
     size |-> 0, values |-> <<>>, offsets |-> <<>>]

OptionStringArray(opts) ==
    [dt |-> Utf8,
     cells |-> [i \in 1..Len(opts) |-> IF opts[i] = None THEN NullCell ELSE Cell(opts[i][1])],
     size |-> 0, values |-> <<>>, offsets |-> <<>>]

FixedSizeListArray(item, itemNullable, size, values) ==
    [dt |-> FixedSizeList(item, itemNullable, size), cells |-> <<>>,
     size |-> size, values |-> values, offsets |-> <<>>]

ListArray(item, itemNullable, offsets, values) ==
    [dt |-> List(item, itemNullable), cells |-> <<>>,
     size |-> 0, values |-> values, offsets |-> offsets]

ArrayLen(a) ==
    CASE a.dt.kind = "FixedSizeList" -> FloatsLen(a.values) \div a.size
      [] a.dt.kind = "List" -> Len(a.offsets) - 1
      [] OTHER -> Len(a.cells)

NullCount(a) ==
    IF a.dt.kind \in {"FixedSizeList", "List"} THEN 0
    ELSE Cardinality({i \in 1..Len(a.cells) : a.cells[i].null})

\* the value of row i (0-based) of an array, as the engine stores it
ArrayValue(a, i) ==
    CASE a.dt.kind = "FixedSizeList" -> FloatsSlice(a.values, a.size * i + 1, a.size * (i + 1))
      [] a.dt.kind = "List" -> SubSeq(a.values, a.offsets[i + 1] + 1, a.offsets[i + 2])
      [] OTHER -> a.cells[i + 1]

-----------------------------------------------------------------------------
(* Columnar record mapper: encode *)

\* validate_embeddings looking at the first record only
validate_first_embedding(records) ==
    IF records # <<>> /\ FloatsLen(records[1].embedding) # EMBEDDING_DIM
    THEN Err("InvalidDimension")
    ELSE Ok(<<>>)

validate_embeddings(records) ==
    IF \E i \in 1..Len(records) : FloatsLen(records[i].embedding) # EMBEDDING_DIM
    THEN Err("InvalidDimension")
    ELSE Ok(<<>>)

extract_basic_fields(records) ==
    [paths |-> [i \in 1..Len(records) |-> records[i].path],
     hashes |-> [i \in 1..Len(records) |-> records[i].hash],
     languages |-> [i \in 1..Len(records) |-> records[i].language],
     last_modified |-> [i \in 1..Len(records) |-> records[i].last_modified],
     last_accessed |-> [i \in 1..Len(records) |-> records[i].last_accessed],
     line_counts |-> [i \in 1..Len(records) |-> records[i].line_count],
     content_previews |-> [i \in 1..Len(records) |-> records[i].content_preview]]

extract_embeddings(records) ==
    FloatsFlatten([i \in 1..Len(records) |-> records[i].embedding])

RECURSIVE ImportedByOffsets(_, _)
ImportedByOffsets(records, total) ==
    IF records = <<>> THEN <<>>
    ELSE LET t == total + Len(Head(records).imported_by)
         IN  <<t>> \o ImportedByOffsets(Tail(records), t)

\* extract_imported_by recording each record's own count, not the running total
extract_imported_by_counts(records) ==
    [values |-> Flatten([i \in 1..Len(records) |-> records[i].imported_by]),
     offsets |-> <<0>> \o [i \in 1..Len(records) |-> Len(records[i].imported_by)]]

extract_imported_by(records) ==
    [values |-> Flatten([i \in 1..Len(records) |-> records[i].imported_by]),
     offsets |-> <<0>> \o ImportedByOffsets(records, 0)]

\* the embedding column built with a list size one short of EMBEDDING_DIM
embedding_array_short(records) ==
    FixedSizeListArray("Float32", TRUE, EMBEDDING_DIM - 1, extract_embeddings(records))

\* the embedding column: the flat values, read in chunks of EMBEDDING_DIM
embedding_array(records) ==
    FixedSizeListArray("Float32", TRUE, EMBEDDING_DIM, extract_embeddings(records))

create_arrow_arrays(records) ==
    IF ~validate_embeddings(records).ok THEN validate_embeddings(records)
    ELSE LET f == extract_basic_fields(records)
             imp == extract_imported_by(records)
         IN  Ok(<< PrimitiveArray(Utf8, f.paths),
                   PrimitiveArray(Utf8, f.hashes),
                   embedding_array(records),
                   PrimitiveArray(Utf8, f.languages),
                   PrimitiveArray(TimestampMicrosecond, f.last_modified),
                   PrimitiveArray(TimestampMicrosecond, f.last_accessed),
                   PrimitiveArray(Int16, f.line_counts),
                   ListArray("Utf8", FALSE, imp.offsets, imp.values),
                   OptionStringArray(f.content_previews) >>)

\* RecordBatch::try_new: column count, equal lengths, nullability, types
RecordBatch_try_new(schema, arrays) ==
    IF /\ Len(schema) = Len(arrays)
       /\ \A j \in 1..Len(arrays) :
            /\ ArrayLen(arrays[j]) = ArrayLen(arrays[1])
            /\ schema[j].nullable \/ NullCount(arrays[j]) = 0
            /\ arrays[j].dt = schema[j].dt
    THEN Ok([schema |-> schema, columns |-> arrays,
             num_rows |-> IF arrays = <<>> THEN 0 ELSE ArrayLen(arrays[1])])
    ELSE Err("RecordBatchError")

create_record_batch(arrays, schema) == RecordBatch_try_new(schema, arrays)

-----------------------------------------------------------------------------
(* Columnar record mapper: decode *)

Downcast(batch, k, kind) == batch.columns[k + 1].dt.kind = kind

record_batch_to_embedding_record(batch, row_index) ==
    IF row_index >= batch.num_rows THEN Err("RowOutOfBounds")
    ELSE LET col(k) == batch.columns[k + 1]
             expected == <<"Utf8", "Utf8", "FixedSizeList", "Utf8",
                           "Timestamp(Microsecond)", "Timestamp(Microsecond)",
                           "Int16", "List", "Utf8">>
             \* the first column, in positional order, that decode cannot read
             bad == {k \in 0..8 : \/ k >= Len(batch.columns)
                                  \/ ~Downcast(batch, k, expected[k + 1])
                                  \/ (k = 2 /\ col(k).dt.item # "Float32")
                                  \/ (k = 7 /\ col(k).dt.item # "Utf8")}
             firstBad == CHOOSE k \in bad : \A m \in bad : k <= m
         IN  IF bad # {}
             THEN IF firstBad >= Len(batch.columns) THEN Err("Panic")
                  ELSE Err("CastError")
             ELSE Ok(EmbeddingRecord(
                        col(0).cells[row_index + 1].value,
                        col(1).cells[row_index + 1].value,
                        ArrayValue(col(2), row_index),
                        col(3).cells[row_index + 1].value,
                        col(4).cells[row_index + 1].value,
                        col(5).cells[row_index + 1].value,
                        col(6).cells[row_index + 1].value,
                        ArrayValue(col(7), row_index),
                        IF col(8).cells[row_index + 1].null THEN None
                        ELSE Some(col(8).cells[row_index + 1].value)))


-----------------------------------------------------------------------------
(* Filter expressions: the client formats one, the engine parses it *)

replace_quotes(path) ==
    Flatten([i \in 1..Len(path) |-> IF path[i] = "'" THEN <<"'", "'">> ELSE <<path[i]>>])

\* delete_embedding's filter with the path put between the quotes as it is
delete_filter_unescaped(path) == <<"path = '">> \o path \o <<"'">>

\* format!("path = '{}'", path.replace("'", "''")) in delete_embedding
delete_filter(path) == <<"path = '">> \o replace_quotes(path) \o <<"'">>

\* get_embedding's filter with the path put between the quotes as it is
get_filter_unescaped(path) == <<"path = '">> \o path \o <<"'">>

\* format!("path = '{}'", path.replace("'", "''")) in get_embedding
get_filter(path) == <<"path = '">> \o replace_quotes(path) \o <<"'">>

\* the SQL string literal that starts after the opening quote of s
RECURSIVE ScanLiteral(_, _)
ScanLiteral(s, acc) ==
    IF s = <<>> THEN Err("EngineError")
    ELSE IF Head(s) # "'" THEN ScanLiteral(Tail(s), Append(acc, Head(s)))
    ELSE IF Len(s) >= 2 /\ s[2] = "'" THEN ScanLiteral(Tail(Tail(s)), Append(acc, "'"))
    ELSE IF Tail(s) = <<>> THEN Ok(acc)
    ELSE Err("EngineError")

ParseFilter(expr) ==
    IF expr = <<>> \/ Head(expr) # "path = '" THEN Err("EngineError")
    ELSE ScanLiteral(Tail(expr), <<>>)

-----------------------------------------------------------------------------
(* The storage engine *)

\* the rows a batch appends to the table
RowsOfBatch(batch) ==
    [i \in 1..batch.num_rows |->
        [j \in 1..Len(batch.columns) |-> ArrayValue(batch.columns[j], i - 1)]]

RECURSIVE Offsets(_, _)
Offsets(lists, total) ==
    IF lists = <<>> THEN <<>>
    ELSE <<total + Len(Head(lists))>> \o Offsets(Tail(lists), total + Len(Head(lists)))

\* column j of the batch in which the engine returns the rows rws
EngineColumn(field, rws, j) ==
    LET vals == [i \in 1..Len(rws) |-> rws[i][j]]
    IN  CASE field.dt.kind = "FixedSizeList" ->
                FixedSizeListArray(field.dt.item, field.dt.itemNullable, field.dt.size,
                                   FloatsFlatten(vals))
          [] field.dt.kind = "List" ->
                ListArray(field.dt.item, field.dt.itemNullable,
                          <<0>> \o Offsets(vals, 0), Flatten(vals))
          [] OTHER ->
                [dt |-> field.dt, cells |-> vals, size |-> 0, values |-> <<>>,
                 offsets |-> <<>>]

EngineBatch(schema, rws) ==
    [schema |-> schema,
     columns |-> [j \in 1..Len(schema) |-> EngineColumn(schema[j], rws, j)],
     num_rows |-> Len(rws)]

\* every way of cutting rws into consecutive non-empty pages
RECURSIVE Pages(_)
Pages(rws) ==
    IF rws = <<>> THEN {<<>>}
    ELSE UNION {{<<SubSeq(rws, 1, k)>> \o rest : rest \in Pages(SubSeq(rws, k + 1, Len(rws)))} :
                k \in 1..Len(rws)}

\* the result streams the engine may deliver for the result rows rws
Streams(schema, rws) ==
    IF rws = <<>> THEN {<<>>, <<EngineBatch(schema, <<>>)>>}
    ELSE {[i \in 1..Len(pg) |-> EngineBatch(schema, pg[i])] : pg \in Pages(rws)}

\* the same streams, and each of them behind a batch without rows
StreamsWithEmpty(schema, rws) ==
    Streams(schema, rws) \cup
    {<<EngineBatch(schema, <<>>)>> \o st : st \in Streams(schema, rws)}

Matching(path) == {i \in 1..Len(rows) : rows[i][1].value = path}

\* rows left by table.delete(filter)
RECURSIVE DeleteRows(_, _)
DeleteRows(rws, path) ==
    IF rws = <<>> THEN <<>>
    ELSE IF Head(rws)[1].value = path THEN DeleteRows(Tail(rws), path)
    ELSE <<Head(rws)>> \o DeleteRows(Tail(rws), path)

\* the index sequences a nearest-neighbour search for k of the rows rws may
\* return
NearestIn(rws, vector, k) ==
    LET n == Len(rws)
        d == [i \in 1..n |-> Distance(rws[i][3], vector)]
    IN  {p \in [1..Min(k, n) -> 1..n] :
            /\ \A x, y \in DOMAIN p : x < y => (p[x] # p[y] /\ d[p[x]] <= d[p[y]])
            /\ \A i \in 1..n : (\A x \in DOMAIN p : p[x] # i) =>
                                  \A x \in DOMAIN p : d[p[x]] <= d[i]}

Nearest(vector, k) == NearestIn(rows, vector, k)

DistanceField == Field("_distance", Float32, TRUE)


-----------------------------------------------------------------------------
(* LanceDbClient operations.  An outcome is the result a call returns, the *)
(* engine calls it made (and those that failed), the rows it leaves and    *)
(* how many rows it removed.                                               *)

Outcome(result, ret, calls, failed, rws) ==
    [result |-> result, ret |-> ret, calls |-> calls, failed |-> failed, rows |-> rws,
     removed |-> IF Len(rws) < Len(rows) THEN Len(rows) - Len(rws) ELSE 0]

\* insert_embeddings sending an empty batch on to the mapper and the engine
is_never_empty(records) == FALSE

\* records.is_empty()
is_empty(records) == records = <<>>

\* the outcomes of insert_embeddings: the engine's schema() and add() may
\* each fail
insert_embeddings(records) ==
    IF is_empty(records) THEN {Outcome("Ok", <<>>, <<>>, <<>>, rows)}
    ELSE LET arrays == create_arrow_arrays(records)
         IN  IF ~arrays.ok THEN {Outcome(arrays.err, <<>>, <<>>, <<>>, rows)}
             ELSE {Outcome("EngineError", <<>>, <<"schema">>, <<"schema">>, rows)}
                  \cup
                  LET batch == create_record_batch(arrays.val, tableSchema)
                  IN  IF ~batch.ok
                      THEN {Outcome(batch.err, <<>>, <<"schema">>, <<>>, rows)}
                      ELSE {Outcome("EngineError", <<>>, <<"schema", "add">>,
                                    <<"add">>, rows),
                            Outcome("Ok", <<>>, <<"schema", "add">>, <<>>,
                                    rows \o RowsOfBatch(batch.val))}

\* delete_embedding with a filter that no row satisfies
delete_embedding_nothing(path, deleteFails) ==
    IF deleteFails
    THEN Outcome("EngineError", <<>>, <<"delete">>, <<"delete">>, rows)
    ELSE Outcome("Ok", <<>>, <<"delete">>, <<>>, rows)

delete_embedding(path, deleteFails) ==
    LET literal == ParseFilter(delete_filter(path))
    IN  IF deleteFails \/ ~literal.ok
        THEN Outcome("EngineError", <<>>, <<"delete">>, <<"delete">>, rows)
        ELSE Outcome("Ok", <<>>, <<"delete">>, <<>>, DeleteRows(rows, literal.val))

\* get_embedding decoding row 0 of the first batch without looking at num_rows
FirstBatchUnchecked(stream) ==
    IF stream # <<>>
    THEN LET d == record_batch_to_embedding_record(stream[1], 0)
         IN  IF d.ok THEN Outcome("Ok", <<d.val>>, <<"query">>, <<>>, rows)
             ELSE Outcome(d.err, <<>>, <<"query">>, <<>>, rows)
    ELSE Outcome("Ok", <<>>, <<"query">>, <<>>, rows)

\* what get_embedding makes of the stream: its first batch only
FirstBatch(stream) ==
    IF stream # <<>> /\ stream[1].num_rows > 0
    THEN LET d == record_batch_to_embedding_record(stream[1], 0)
         IN  IF d.ok THEN Outcome("Ok", <<d.val>>, <<"query">>, <<>>, rows)
             ELSE Outcome(d.err, <<>>, <<"query">>, <<>>, rows)
    ELSE Outcome("Ok", <<>>, <<"query">>, <<>>, rows)

get_embedding(path, queryFails) ==
    LET literal == ParseFilter(get_filter(path))
    IN  IF queryFails \/ ~literal.ok
        THEN {Outcome("EngineError", <<>>, <<"query">>, <<"query">>, rows)}
        ELSE LET m == Matching(literal.val)
                 limited == IF m = {} THEN {<<>>} ELSE {<<rows[i]>> : i \in m}
             IN  {FirstBatch(st) : st \in UNION {Streams(tableSchema, r) : r \in limited}}

\* query_similar's loop over the batches of the stream and the rows of each
RECURSIVE DecodeRows(_, _)
DecodeRows(batch, row_index) ==
    IF row_index >= batch.num_rows THEN Ok(<<>>)
    ELSE LET d == record_batch_to_embedding_record(batch, row_index)
             rest == DecodeRows(batch, row_index + 1)
         IN  IF ~d.ok THEN d
             ELSE IF ~rest.ok THEN rest
             ELSE Ok(<<d.val>> \o rest.val)

\* query_similar decoding the first batch of the stream only
DecodeStreamFirstBatch(stream) ==
    IF stream = <<>> THEN Ok(<<>>) ELSE DecodeRows(Head(stream), 0)

RECURSIVE DecodeStream(_)
DecodeStream(stream) ==
    IF stream = <<>> THEN Ok(<<>>)
    ELSE LET first == DecodeRows(Head(stream), 0)
             rest == DecodeStream(Tail(stream))
         IN  IF ~first.ok THEN first
             ELSE IF ~rest.ok THEN rest
             ELSE Ok(first.val \o rest.val)

\* query_similar rejecting only the vectors that are too long
query_dimension_at_most(embedding) == FloatsLen(embedding) <= EMBEDDING_DIM

\* query_similar's check of the query vector
query_dimension_ok(embedding) == FloatsLen(embedding) = EMBEDDING_DIM

query_similar(embedding, limit, searchFails) ==
    IF ~query_dimension_ok(embedding)
    THEN {Outcome("InvalidDimension", <<>>, <<>>, <<>>, rows)}
    ELSE IF searchFails \/ tableSchema[3].dt.size # FloatsLen(embedding)
    THEN {Outcome("EngineError", <<>>, <<"vector_search">>, <<"vector_search">>, rows)}
    ELSE LET found(p) == [x \in DOMAIN p |->
                             rows[p[x]] \o <<Cell(Distance(rows[p[x]][3], embedding))>>]
             streams == UNION {Streams(tableSchema \o <<DistanceField>>, found(p)) :
                               p \in Nearest(embedding, limit)}
         IN  {LET d == DecodeStream(st)
              IN  Outcome(d.err, d.val, <<"vector_search">>, <<>>, rows) : st \in streams}

\* query_similar_to_file keeping the queried file among the candidates
retain_all(records, file_path) == records

retain(records, file_path) == SelectSeq(records, LAMBDA r : r.path # file_path)

truncate(records, limit) == SubSeq(records, 1, Min(limit, Len(records)))

\* query_similar_to_file asking for limit candidates only
limit_unpadded(limit) == {Ok(limit)}

\* limit + 1 stopping at USIZE_MAX
limit_saturating(limit) == {Ok(Min(limit + 1, USIZE_MAX))}

\* limit + 1 on usize: past USIZE_MAX a build with overflow checks panics
\* and a build without them wraps
limit_plus_one(limit) ==
    IF limit + 1 > USIZE_MAX
    THEN {Err("Panic"), Ok((limit + 1) % (USIZE_MAX + 1))}
    ELSE {Ok(limit + 1)}

\* query_similar_to_file treating a file without a row as one without neighbours
ok_or_empty(g) == Outcome("Ok", <<>>, g.calls, <<>>, rows)

\* .ok_or_else(|| anyhow!("No embedding found for file: {}", file_path))
ok_or_else(g) == Outcome("NotFound", <<>>, g.calls, <<>>, rows)

query_similar_to_file(file_path, limit, queryFails, searchFails) ==
    UNION {IF g.result # "Ok" THEN {g}
           ELSE IF g.ret = <<>>
           THEN {ok_or_else(g)}
           ELSE UNION {
                  IF ~k.ok THEN {Outcome(k.err, <<>>, g.calls, <<>>, rows)}
                  ELSE {IF q.result # "Ok"
                        THEN Outcome(q.result, <<>>, g.calls \o q.calls, q.failed, rows)
                        ELSE Outcome("Ok", truncate(retain(q.ret, file_path), limit),
                                     g.calls \o q.calls, <<>>, rows) :
                        q \in query_similar(g.ret[1].embedding, k.val, searchFails)} :
                  k \in limit_plus_one(limit)} :
           g \in get_embedding(file_path, queryFails)}


-----------------------------------------------------------------------------
(* State machine *)

\* a table that was created with the column types the mapper's encode produces
NineColumnSchema(dim) ==
    << Field("path", Utf8, FALSE),
       Field("hash", Utf8, FALSE),
       Field("embedding", FixedSizeList("Float32", TRUE, dim), FALSE),
       Field("language", Utf8, FALSE),
       Field("last_modified", TimestampMicrosecond, FALSE),
       Field("last_accessed", TimestampMicrosecond, FALSE),
       Field("line_count", Int16, FALSE),
       Field("imported_by", List("Utf8", FALSE), FALSE),
       Field("content_preview", Utf8, TRUE) >>

\* what the database location may hold before the first connect
ExistingTables ==
    {NoTable, build_embeddings_schema, NineColumnSchema(EMBEDDING_DIM),
     NineColumnSchema(EMBEDDING_DIM - 1)}

-----------------------------------------------------------------------------
(* Embedding generator.  A text is its sequence of words, kept as runs; the *)
(* tokenizer makes one token id of each word, the encoder session one      *)
(* vector of a token sequence.                                              *)

MAX_LEN == 768

MaxPrompts == 3

BOS == 0
EOS == 2
\* the word "<encoder-only>"
EncoderOnly == 9
\* a word the tokenizer rejects, and one the encoder session fails on
Unencodable == 17
Unrunnable == 18

Text(word, n) == Floats(<<Run(word, n)>>)

\* texts of 5, MAX_LEN and MAX_LEN + 1 tokens, and the two that fail
Prompts ==
    {Text(11, 2), Text(12, MAX_LEN - 3), Text(11, MAX_LEN - 2),
     Text(Unencodable, 1), Text(Unrunnable, 1)}

format_encoder_only(prompt) == FloatsConcat(<<Run(EncoderOnly, 1)>>, prompt)

\* an Encoding: the ids, and the attention mask with a 1 for every id
Encoding(ids) == [ids |-> ids, attention_mask |-> Floats(<<Run(1, FloatsLen(ids))>>)]

\* Tokenizer::encode: one id per word, between BOS and EOS with special tokens
Tokenizer_encode(input, add_special_tokens) ==
    IF \E i \in DOMAIN input : input[i].v = Unencodable
    THEN Err("TokenizationError")
    ELSE Ok(Encoding(IF add_special_tokens
                     THEN Floats(<<Run(BOS, 1)>> \o input \o <<Run(EOS, 1)>>)
                     ELSE input))

\* Array::from_shape_vec: the vector must fill the shape exactly
Array_from_shape_vec(shape, v) ==
    IF shape[1] * shape[2] = FloatsLen(v)
    THEN Ok([shape |-> shape, data |-> v])
    ELSE Err("ShapeError")

\* Session::run: a vector of EMBEDDING_DIM floats that the token ids determine
Session_run(input_ids, attention_mask) ==
    IF \E i \in DOMAIN input_ids.data : input_ids.data[i].v = Unrunnable
    THEN Err("InferenceError")
    ELSE Ok([shape |-> <<1, EMBEDDING_DIM>>,
             data |-> Vec(EMBEDDING_DIM,
                          FloatsSlice(input_ids.data, 3, 3)[1].v + input_ids.shape[2])])

\* the two input arrays of embed, each with its `?`
input_arrays(input_ids_array, attention_mask_array) ==
    IF ~input_ids_array.ok THEN input_ids_array
    ELSE IF ~attention_mask_array.ok THEN attention_mask_array
    ELSE Ok([input_ids |-> input_ids_array.val,
             attention_mask |-> attention_mask_array.val])

\* embed from the encoding to its two input arrays, shaped [1, seq_len]
shape_inputs(input_ids, attention_mask, seq_len) ==
    input_arrays(Array_from_shape_vec(<<1, seq_len>>, input_ids),
                 Array_from_shape_vec(<<1, seq_len>>, attention_mask))

\* embed from the tokenizer's answer to its two input arrays
encoded_inputs(encoding) ==
    IF ~encoding.ok THEN encoding
    ELSE shape_inputs(encoding.val.ids, encoding.val.attention_mask,
                      Min(FloatsLen(encoding.val.ids), MAX_LEN))

\* embed up to its two input arrays
embed_inputs(prompt) ==
    encoded_inputs(Tokenizer_encode(format_encoder_only(prompt), TRUE))

\* embed from the output array to the flat vector
flatten_output(output) == IF ~output.ok THEN output ELSE Ok(output.val.data)

\* embed from the session's answer on
extract_output(outputs) ==
    IF ~outputs.ok THEN outputs
    ELSE flatten_output(Array_from_shape_vec(outputs.val.shape, outputs.val.data))

\* embed from its two input arrays on
run_inputs(inputs) ==
    IF ~inputs.ok THEN inputs
    ELSE extract_output(Session_run(inputs.val.input_ids, inputs.val.attention_mask))

embed(prompt) == run_inputs(embed_inputs(prompt))

RECURSIVE embed_batch_loop_skipping(_, _, _)
RECURSIVE embed_batch_loop(_, _, _)
RECURSIVE embed_batch_push(_, _, _, _)

\* one turn of embed_batch's loop: the `?` on embed's answer and the push
embed_batch_push(prompts, embeddings, invoked, embedding) ==
    IF ~embedding.ok
    THEN [result |-> embedding.err, ret |-> <<>>, invoked |-> invoked]
    ELSE embed_batch_loop(Tail(prompts), Append(embeddings, embedding.val), invoked)

\* the loop of embed_batch going on to the next prompt when embed fails
embed_batch_loop_skipping(prompts, embeddings, invoked) ==
    IF prompts = <<>>
    THEN [result |-> "Ok", ret |-> embeddings, invoked |-> invoked]
    ELSE embed_batch_loop_skipping(
             Tail(prompts),
             IF embed(Head(prompts)).ok
             THEN Append(embeddings, embed(Head(prompts)).val)
             ELSE embeddings,
             Append(invoked, Head(prompts)))

\* the loop of embed_batch: the vectors so far, and the prompts embed was
\* called on
embed_batch_loop(prompts, embeddings, invoked) ==
    IF prompts = <<>>
    THEN [result |-> "Ok", ret |-> embeddings, invoked |-> invoked]
    ELSE embed_batch_push(prompts, embeddings, Append(invoked, Head(prompts)),
                          embed(Head(prompts)))

embed_batch(prompts) == embed_batch_loop(prompts, <<>>, <<>>)

NoEmbedCall ==
    [op |-> "none", prompts |-> <<>>, result |-> "Ok", ret |-> <<>>, invoked |-> <<>>]

-----------------------------------------------------------------------------
(* Daemon client.  The processes are the child that launch_daemon spawns   *)
(* and a daemon that somebody else may have started.                       *)

\* the polls of launch_daemon
PollAttempts == 10

PollResponses == {"Ok(true)", "Ok(false)", "Err"}

OllamaClient_new(external) ==
    [daemon_process |-> None, pc |-> "new", attempt |-> 0, poll |-> "none",
     result |-> "none", running |-> IF external THEN {"external"} ELSE {},
     spawned |-> {}, killed |-> {}, killFailed |-> FALSE]

-----------------------------------------------------------------------------
(* Callers and initial states *)

Idle == [active |-> FALSE, path |-> <<>>, record |-> RecQ, calls |-> <<>>,
         failed |-> <<>>, removed |-> 0]

Call(op, caller, path, records, vector, limit, o) ==
    [op |-> op, caller |-> caller, path |-> path, records |-> records,
     vector |-> vector, limit |-> limit, result |-> o.result, ret |-> o.ret,
     calls |-> o.calls, failed |-> o.failed, removed |-> o.removed]

NoCall == Call("none", "c1", <<>>, <<>>, <<>>, 0, Outcome("Ok", <<>>, <<>>, <<>>, <<>>))

Ready(c) == client /\ ~pending[c].active

Init ==
    /\ tableSchema \in ExistingTables
    /\ rows = <<>>
    /\ client = FALSE
    /\ pending = [c \in Callers |-> Idle]
    /\ last = NoCall
    /\ embedder = NoEmbedCall
    /\ ollama = OllamaClient_new(FALSE)

\* verify_embeddings_table creating the table anew at every connect
verify_embeddings_table_recreate(openFails, createFails) ==
    IF createFails
    THEN [result |-> "EngineError", schema |-> tableSchema, rows |-> rows,
          calls |-> <<"create_table">>, failed |-> <<"create_table">>]
    ELSE [result |-> "Ok", schema |-> build_embeddings_schema, rows |-> <<>>,
          calls |-> <<"create_table">>, failed |-> <<>>]

\* verify_embeddings_table: open the table, create it when the open fails
verify_embeddings_table(openFails, createFails) ==
    IF tableSchema # NoTable /\ ~openFails
    THEN [result |-> "Ok", schema |-> tableSchema, rows |-> rows,
          calls |-> <<"open_table">>, failed |-> <<>>]
    ELSE IF tableSchema # NoTable \/ createFails
    THEN [result |-> "EngineError", schema |-> tableSchema, rows |-> rows,
          calls |-> <<"open_table", "create_table">>,
          failed |-> <<"open_table", "create_table">>]
    ELSE [result |-> "Ok", schema |-> build_embeddings_schema, rows |-> <<>>,
          calls |-> <<"open_table", "create_table">>, failed |-> <<"open_table">>]

Connect(c, connectFails, openFails, createFails) ==
    /\ ~pending[c].active
    /\ LET v == IF connectFails
                THEN [result |-> "EngineError", schema |-> tableSchema, rows |-> rows,
                      calls |-> <<"connect">>, failed |-> <<"connect">>]
                ELSE verify_embeddings_table(openFails, createFails)
       IN  /\ tableSchema' = v.schema
           /\ rows' = v.rows
           /\ client' = (client \/ v.result = "Ok")
           /\ last' = Call("connect", c, <<>>, <<>>, <<>>, 0,
                           Outcome(v.result, <<>>, v.calls, v.failed, v.rows))
    /\ UNCHANGED <<pending, embedder, ollama>>

InsertEmbeddings(c, records) ==
    /\ Ready(c)
    /\ Len(rows) + Len(records) <= MaxRows   \* the table is kept within MaxRows
    /\ \E o \in insert_embeddings(records) :
           /\ rows' = o.rows
           /\ last' = Call("insert", c, <<>>, records, <<>>, 0, o)
    /\ UNCHANGED <<tableSchema, client, pending, embedder, ollama>>

DeleteEmbedding(c, path, deleteFails) ==
    /\ Ready(c)
    /\ LET o == delete_embedding(path, deleteFails)
       IN  /\ rows' = o.rows
           /\ last' = Call("delete", c, path, <<>>, <<>>, 0, o)
    /\ UNCHANGED <<tableSchema, client, pending, embedder, ollama>>

\* update_embedding accepting a record stored under another path
path_mismatch_ignored(path, record) == FALSE

\* update_embedding's check of the record against the path parameter
path_mismatch(path, record) == record.path # path

\* update_embedding going to its insert without the delete
UpdateEmbeddingKeepsOld(c, path, record, deleteFails) ==
    /\ Ready(c)
    /\ IF path_mismatch(path, record)
       THEN /\ last' = Call("update", c, path, <<record>>, <<>>, 0,
                            Outcome("PathMismatch", <<>>, <<>>, <<>>, rows))
            /\ UNCHANGED <<rows, pending>>
       ELSE /\ last' = Call("update_delete", c, path, <<record>>, <<>>, 0,
                            Outcome("Ok", <<>>, <<>>, <<>>, rows))
            /\ pending' = [pending EXCEPT ![c] =
                             [active |-> TRUE, path |-> path, record |-> record,
                              calls |-> <<>>, failed |-> <<>>, removed |-> 0]]
            /\ UNCHANGED rows
    /\ UNCHANGED <<tableSchema, client, embedder, ollama>>

\* update_embedding returning the error of its delete
UpdateEmbeddingChecksDelete(c, path, record, deleteFails) ==
    /\ Ready(c)
    /\ IF path_mismatch(path, record)
       THEN /\ last' = Call("update", c, path, <<record>>, <<>>, 0,
                            Outcome("PathMismatch", <<>>, <<>>, <<>>, rows))
            /\ UNCHANGED <<rows, pending>>
       ELSE LET o == delete_embedding(path, deleteFails)
            IN  /\ rows' = o.rows
                /\ IF o.result = "Ok"
                   THEN /\ last' = Call("update_delete", c, path, <<record>>, <<>>, 0, o)
                        /\ pending' = [pending EXCEPT ![c] =
                                         [active |-> TRUE, path |-> path, record |-> record,
                                          calls |-> o.calls, failed |-> o.failed,
                                          removed |-> o.removed]]
                   ELSE /\ last' = Call("update", c, path, <<record>>, <<>>, 0, o)
                        /\ UNCHANGED pending
    /\ UNCHANGED <<tableSchema, client, embedder, ollama>>

\* update_embedding up to its insert: the path check and the delete
UpdateEmbedding(c, path, record, deleteFails) ==
    /\ Ready(c)
    /\ IF path_mismatch(path, record)
       THEN /\ last' = Call("update", c, path, <<record>>, <<>>, 0,
                            Outcome("PathMismatch", <<>>, <<>>, <<>>, rows))
            /\ UNCHANGED <<rows, pending>>
       ELSE LET o == delete_embedding(path, deleteFails)
            IN  /\ rows' = o.rows
                /\ last' = Call("update_delete", c, path, <<record>>, <<>>, 0, o)
                /\ pending' = [pending EXCEPT ![c] =
                                 [active |-> TRUE, path |-> path, record |-> record,
                                  calls |-> o.calls, failed |-> o.failed,
                                  removed |-> o.removed]]
    /\ UNCHANGED <<tableSchema, client, embedder, ollama>>

\* update_embedding deleting the path's rows once more at its insert
UpdateInsertReplaces(c) ==
    /\ client
    /\ pending[c].active
    /\ \E o \in insert_embeddings(<<pending[c].record>>) :
           /\ Len(o.rows) <= MaxRows
           /\ rows' = IF o.result = "Ok"
                      THEN DeleteRows(rows, pending[c].path) \o <<o.rows[Len(o.rows)]>>
                      ELSE o.rows
           /\ last' = Call("update", c, pending[c].path, <<pending[c].record>>, <<>>, 0,
                           [Outcome(o.result, <<>>, pending[c].calls \o o.calls,
                                    pending[c].failed \o o.failed, o.rows)
                              EXCEPT !.removed = pending[c].removed])
    /\ pending' = [pending EXCEPT ![c] = Idle]
    /\ UNCHANGED <<tableSchema, client, embedder, ollama>>

\* update_embedding from its insert to its return
UpdateInsert(c) ==
    /\ client
    /\ pending[c].active
    /\ \E o \in insert_embeddings(<<pending[c].record>>) :
           /\ Len(o.rows) <= MaxRows
           /\ rows' = o.rows
           /\ last' = Call("update", c, pending[c].path, <<pending[c].record>>, <<>>, 0,
                           [Outcome(o.result, <<>>, pending[c].calls \o o.calls,
                                    pending[c].failed \o o.failed, o.rows)
                              EXCEPT !.removed = pending[c].removed])
    /\ pending' = [pending EXCEPT ![c] = Idle]
    /\ UNCHANGED <<tableSchema, client, embedder, ollama>>

GetEmbedding(c, path, queryFails) ==
    /\ Ready(c)
    /\ \E o \in get_embedding(path, queryFails) :
           last' = Call("get", c, path, <<>>, <<>>, 0, o)
    /\ UNCHANGED <<tableSchema, rows, client, pending, embedder, ollama>>

QuerySimilar(c, embedding, limit, searchFails) ==
    /\ Ready(c)
    /\ \E o \in query_similar(embedding, limit, searchFails) :
           last' = Call("query_similar", c, <<>>, <<>>, embedding, limit, o)
    /\ UNCHANGED <<tableSchema, rows, client, pending, embedder, ollama>>

QuerySimilarToFile(c, file_path, limit, queryFails, searchFails) ==
    /\ Ready(c)
    /\ \E o \in query_similar_to_file(file_path, limit, queryFails, searchFails) :
           last' = Call("query_similar_to_file", c, file_path, <<>>, <<>>, limit, o)
    /\ UNCHANGED <<tableSchema, rows, client, pending, embedder, ollama>>

\* the calls the callers cs may make next, with inputs from the given sets
Calls(cs, batches, paths, records, vectors, limits, fails) ==
    \E c \in cs :
        \/ \E f1, f2, f3 \in fails : Connect(c, f1, f2, f3)
        \/ \E rs \in batches : InsertEmbeddings(c, rs)
        \/ \E path \in paths, f \in fails : DeleteEmbedding(c, path, f)
        \/ \E path \in paths, record \in records, f \in fails :
              UpdateEmbedding(c, path, record, f)
        \/ UpdateInsert(c)
        \/ \E path \in paths, f \in fails : GetEmbedding(c, path, f)
        \/ \E embedding \in vectors, limit \in limits, f \in fails :
              QuerySimilar(c, embedding, limit, f)
        \/ \E path \in paths, limit \in limits, f1, f2 \in fails :
              QuerySimilarToFile(c, path, limit, f1, f2)

\* one caller: every call returns before the next begins
Next == Calls({"c1"}, Batches, Paths, Records, Vectors, Limits, BOOLEAN)

Spec == Init /\ [][Next]_vars

\* two callers on one client: their calls interleave at update's await
NextConcurrent ==
    Calls(Callers, SeqsUpTo({RecQ2, RecShort}, 1), {PathQ}, {RecQ, RecQ2, RecShort},
          {Vec(EMBEDDING_DIM, 0), Vec(EMBEDDING_DIM - 1, 0)}, {MaxLimit}, BOOLEAN)

SpecConcurrent == Init /\ [][NextConcurrent]_vars

\* the embedder alone: embed and embed_batch on the prompts
InitEmbedder ==
    /\ tableSchema = NoTable
    /\ rows = <<>>
    /\ client = FALSE
    /\ pending = [c \in Callers |-> Idle]
    /\ last = NoCall
    /\ embedder = NoEmbedCall
    /\ ollama = OllamaClient_new(FALSE)

Embed(prompt) ==
    /\ LET e == embed(prompt)
       IN  embedder' = [op |-> "embed", prompts |-> <<prompt>>, result |-> e.err,
                        ret |-> IF e.ok THEN <<e.val>> ELSE <<>>,
                        invoked |-> <<prompt>>]
    /\ UNCHANGED <<storeVars, ollama>>

EmbedBatch(prompts) ==
    /\ LET b == embed_batch(prompts)
       IN  embedder' = [op |-> "embed_batch", prompts |-> prompts, result |-> b.result,
                        ret |-> b.ret, invoked |-> b.invoked]
    /\ UNCHANGED <<storeVars, ollama>>

NextEmbedder ==
    \/ \E prompt \in Prompts : Embed(prompt)
    \/ \E prompts \in SeqsUpTo(Prompts, MaxPrompts) : EmbedBatch(prompts)

SpecEmbedder == InitEmbedder /\ [][NextEmbedder]_vars

\* the daemon client alone, with or without a daemon started by somebody else
InitDaemon ==
    /\ tableSchema = NoTable
    /\ rows = <<>>
    /\ client = FALSE
    /\ pending = [c \in Callers |-> Idle]
    /\ last = NoCall
    /\ embedder = NoEmbedCall
    /\ ollama \in {OllamaClient_new(external) : external \in BOOLEAN}

\* launch_daemon losing the handle of the child it spawned
LaunchDaemonForgetsChild(spawnFails) ==
    /\ ollama.pc = "new"
    /\ ollama' = IF spawnFails
                 THEN [ollama EXCEPT !.pc = "returned", !.result = "SpawnError"]
                 ELSE [ollama EXCEPT !.pc = "polling",
                                     !.running = @ \cup {"child"},
                                     !.spawned = @ \cup {"child"}]
    /\ UNCHANGED <<storeVars, embedder>>

\* launch_daemon up to its loop: the spawn and the handle.  main calls it
\* once, on the client it has just made.
LaunchDaemon(spawnFails) ==
    /\ ollama.pc = "new"
    /\ ollama' = IF spawnFails
                 THEN [ollama EXCEPT !.pc = "returned", !.result = "SpawnError"]
                 ELSE [ollama EXCEPT !.daemon_process = Some("child"),
                                     !.pc = "polling",
                                     !.running = @ \cup {"child"},
                                     !.spawned = @ \cup {"child"}]
    /\ UNCHANGED <<storeVars, embedder>>

\* one turn of launch_daemon's loop: the sleep, the poll, the dot
PollDaemon(response, flushFails) ==
    /\ ollama.pc = "polling"
    /\ LET attempt == ollama.attempt + 1
           polled == [ollama EXCEPT !.attempt = attempt, !.poll = response]
       IN  ollama' = IF response = "Ok(true)"
                     THEN [polled EXCEPT !.pc = "returned", !.result = "Ok"]
                     ELSE IF attempt < PollAttempts
                          THEN IF flushFails
                               THEN [polled EXCEPT !.pc = "returned", !.result = "IoError"]
                               ELSE polled
                          ELSE [polled EXCEPT !.pc = "returned", !.result = "Timeout"]
    /\ UNCHANGED <<storeVars, embedder>>

\* drop of the client, between its calls
Drop(killFails) ==
    /\ ollama.pc \in {"new", "returned"}
    /\ ollama' = IF ollama.daemon_process # None
                 THEN IF killFails
                      THEN [ollama EXCEPT !.pc = "dropped", !.killFailed = TRUE]
                      ELSE [ollama EXCEPT !.pc = "dropped",
                                          !.running = @ \ {ollama.daemon_process[1]},
                                          !.killed = @ \cup {ollama.daemon_process[1]}]
                 ELSE [ollama EXCEPT !.pc = "dropped"]
    /\ UNCHANGED <<storeVars, embedder>>

NextDaemon ==
    \/ \E spawnFails \in BOOLEAN : LaunchDaemon(spawnFails)
    \/ \E response \in PollResponses, flushFails \in BOOLEAN : PollDaemon(response, flushFails)
    \/ \E killFails \in BOOLEAN : Drop(killFails)

\* launch_daemon runs on its caller's thread: its loop is not held up
SpecDaemon ==
    /\ InitDaemon
    /\ [][NextDaemon]_vars
    /\ WF_vars(\E response \in PollResponses, flushFails \in BOOLEAN :
                  PollDaemon(response, flushFails))

-----------------------------------------------------------------------------
(* Properties *)

InvalidDim(r) == FloatsLen(r.embedding) # EMBEDDING_DIM

PathRows(rws, path) == SelectSeq(rws, LAMBDA row : row[1].value = path)
OtherRows(rws, path) == SelectSeq(rws, LAMBDA row : row[1].value # path)

\* C1: on the table that connect creates, inserting one valid record whose
\* path is not stored succeeds, and a get of that path then returns a record
\* equal to the inserted one in all nine fields.
C1_RoundTrip ==
    [][\A r \in ValidRecords :
         (/\ last'.op = "insert"
          /\ last'.records = <<r>>
          /\ last'.failed = <<>>
          /\ tableSchema = build_embeddings_schema
          /\ PathRows(rows, r.path) = <<>>)
         => /\ last'.result = "Ok"
            /\ \A o \in get_embedding(r.path, FALSE)' :
                  o.result = "Ok" /\ o.ret = <<r>>]_vars

\* the round trip on a table whose columns are those of the mapper
RoundTripNineColumns ==
    [][\A r \in ValidRecords :
         (/\ last'.op = "insert"
          /\ last'.records = <<r>>
          /\ last'.failed = <<>>
          /\ tableSchema = NineColumnSchema(EMBEDDING_DIM)
          /\ PathRows(rows, r.path) = <<>>)
         => /\ last'.result = "Ok"
            /\ \A o \in get_embedding(r.path, FALSE)' :
                  o.result = "Ok" /\ o.ret = <<r>>]_vars

\* C2: an insert_embeddings batch holding a record whose embedding is not
\* EMBEDDING_DIM long, at any position, fails as a whole with the dimension
\* error, makes no engine call and leaves the table as it was.
C2_InvalidBatchRejected ==
    [][(/\ last'.op = "insert"
        /\ \E i \in DOMAIN last'.records : InvalidDim(last'.records[i]))
       => /\ last'.result = "InvalidDimension"
          /\ last'.calls = <<>>
          /\ rows' = rows]_vars

C2_Witness ==
    /\ last.op = "insert"
    /\ Len(last.records) = 2
    /\ ~InvalidDim(last.records[1])
    /\ InvalidDim(last.records[2])
    /\ last.result = "InvalidDimension"
    /\ last.calls = <<>>

\* C3: update_embedding(path, record) with record.path = path and an
\* embedding that is not EMBEDDING_DIM long is rejected with the dimension
\* error before any engine call, so the row stored under path stays.
C3_UpdateRejectedBeforeStorage ==
    [][(/\ last'.op \in {"update_delete", "update"}
        /\ last'.records[1].path = last'.path
        /\ InvalidDim(last'.records[1])
        /\ PathRows(rows, last'.path) # <<>>)
       => /\ last'.op = "update"
          /\ last'.result = "InvalidDimension"
          /\ last'.calls = <<>>
          /\ rows' = rows]_vars

\* C4: query_similar with a vector that is not EMBEDDING_DIM long returns the
\* dimension error for every limit, issues no search and leaves the table
\* unchanged.
C4_QueryRejected ==
    [][(/\ last'.op = "query_similar"
        /\ FloatsLen(last'.vector) # EMBEDDING_DIM)
       => /\ last'.result = "InvalidDimension"
          /\ last'.calls = <<>>
          /\ rows' = rows]_vars

C4_Witness ==
    /\ last.op = "query_similar"
    /\ FloatsLen(last.vector) # EMBEDDING_DIM
    /\ last.limit = MaxLimit
    /\ last.result = "InvalidDimension"
    /\ rows # <<>>

\* C5: in every reachable state, whatever calls succeeded, failed or are
\* suspended, every row of the table has an embedding of EMBEDDING_DIM floats.
C5_RowsHaveDim ==
    \A i \in 1..Len(rows) : FloatsLen(rows[i][3]) = EMBEDDING_DIM

C5_Witness ==
    /\ Len(rows) = MaxRows
    /\ \E c \in Callers :
          /\ pending[c].active
          /\ InvalidDim(pending[c].record)
          /\ last.caller # c
    /\ last.op = "update"
    /\ last.result = "InvalidDimension"


\* every get_embedding(path) that a client of the table can make now, the
\* engine not failing, returns ret
GetReturns(path, ret) ==
    tableSchema # NoTable =>
        \A o \in get_embedding(path, FALSE) : o.result = "Ok" /\ o.ret = ret

\* C6: with one caller and no engine failure, a successful
\* update_embedding(path, r) leaves exactly one row under path, a get of
\* path returns a record equal to r in every field, and neither step of the
\* update touches the rows of another path.
C6_UpdateReplaces ==
    [][\A r \in ValidRecords :
         /\ (last'.op = "update_delete" /\ last'.records = <<r>> /\ last'.failed = <<>>)
            => /\ PathRows(rows', r.path) = <<>>
               /\ OtherRows(rows', r.path) = OtherRows(rows, r.path)
         /\ (/\ last'.op = "update" /\ last'.records = <<r>>
             /\ last'.result = "Ok" /\ last'.failed = <<>>)
            => /\ Len(PathRows(rows', r.path)) = 1
               /\ GetReturns(r.path, <<r>>)'
               /\ OtherRows(rows', r.path) = OtherRows(rows, r.path)]_vars

C6_Witness ==
    /\ last.op = "update"
    /\ last.result = "Ok"
    /\ last.failed = <<>>
    /\ last.removed >= 1
    /\ OtherRows(rows, last.path) # <<>>

\* C7: update_embedding(path, record) with record.path # path returns the
\* path-mismatch error without the delete or the insert; the table is
\* unchanged.
C7_PathMismatch ==
    [][(/\ last'.op \in {"update_delete", "update"}
        /\ last'.records[1].path # last'.path)
       => /\ last'.op = "update"
          /\ last'.result = "PathMismatch"
          /\ last'.calls = <<>>
          /\ rows' = rows
          /\ pending' = pending]_vars

C7_Witness ==
    /\ last.op = "update"
    /\ last.result = "PathMismatch"
    /\ PathRows(rows, last.path) # <<>>
    /\ PathRows(rows, last.records[1].path) # <<>>

\* C8: a delete_embedding(path) that succeeds leaves no row under path,
\* however many there were, and a get of path returns None; a path without
\* a row stays without one (get returns None) until an insert or an update
\* writes it; deleting a path that is not stored succeeds and changes
\* nothing.
C8_DeleteThenGet ==
    /\ [](\A p \in Paths : PathRows(rows, p) = <<>> => GetReturns(p, <<>>))
    /\ [][\A p \in Paths :
            /\ (last'.op = "delete" /\ last'.path = p /\ last'.result = "Ok")
               => PathRows(rows', p) = <<>>
            /\ (PathRows(rows, p) = <<>> /\ last'.op \notin {"insert", "update"})
               => PathRows(rows', p) = <<>>
            /\ (/\ last'.op = "delete" /\ last'.path = p /\ last'.failed = <<>>
                /\ PathRows(rows, p) = <<>>)
               => last'.result = "Ok" /\ rows' = rows]_vars

C8_Witness ==
    /\ last.op = "delete"
    /\ last.result = "Ok"
    /\ last.removed >= 2

\* C9: get_embedding of a path that has no row returns Ok(None), not an
\* error, on an empty table and on a table that holds other paths.
C9_GetAbsent ==
    (/\ last.op = "get"
     /\ last.failed = <<>>
     /\ PathRows(rows, last.path) = <<>>)
    => last.result = "Ok" /\ last.ret = <<>>

C9_Witness ==
    /\ last.op = "get"
    /\ last.path = PathQ
    /\ last.result = "Ok"
    /\ last.ret = <<>>
    /\ PathRows(rows, PathQQ) # <<>>

\* C10: no record that query_similar_to_file(p, limit) returns has path p,
\* also when all stored embeddings are identical.
C10_ExcludesSelf ==
    last.op = "query_similar_to_file"
    => \A i \in 1..Len(last.ret) : last.ret[i].path # last.path

C10_Witness ==
    /\ last.op = "query_similar_to_file"
    /\ last.result = "Ok"
    /\ last.ret # <<>>
    /\ PathRows(rows, last.path) # <<>>
    /\ \A i, j \in 1..Len(rows) : rows[i][3] = rows[j][3]

\* C11: when path p is stored exactly once and the engine does not fail,
\* query_similar_to_file(p, limit) succeeds and returns exactly
\* min(limit, number of rows with another path) records.
C11_SimilarToFileCount ==
    (/\ last.op = "query_similar_to_file"
     /\ last.failed = <<>>
     /\ Len(PathRows(rows, last.path)) = 1)
    => /\ last.result = "Ok"
       /\ Len(last.ret) = Min(last.limit, Len(OtherRows(rows, last.path)))

\* the count of C11 for the limits whose limit + 1 fits usize
SimilarToFileCountBelowMax ==
    (/\ last.op = "query_similar_to_file"
     /\ last.failed = <<>>
     /\ last.limit < USIZE_MAX
     /\ Len(PathRows(rows, last.path)) = 1)
    => /\ last.result = "Ok"
       /\ Len(last.ret) = Min(last.limit, Len(OtherRows(rows, last.path)))

\* C12: query_similar_to_file(path, limit) on a path that has no row, the
\* engine not failing, returns the not-found error, makes no nearest-neighbour
\* search and leaves the table unchanged.
C12_SimilarToFileNotFound ==
    [][(/\ last'.op = "query_similar_to_file"
        /\ last'.failed = <<>>
        /\ PathRows(rows, last'.path) = <<>>)
       => /\ last'.result = "NotFound"
          /\ \A i \in DOMAIN last'.calls : last'.calls[i] # "vector_search"
          /\ rows' = rows]_vars

C12_Witness ==
    /\ last.op = "query_similar_to_file"
    /\ last.result = "NotFound"
    /\ last.calls = <<"query">>
    /\ PathRows(rows, last.path) = <<>>
    /\ rows # <<>>

\* the record that a stored row decodes to
RowRecord(row) == record_batch_to_embedding_record(EngineBatch(tableSchema, <<row>>), 0).val

\* C13: for a query vector of EMBEDDING_DIM floats, the engine accepting the
\* search, query_similar(vector, limit) returns min(limit, number of rows)
\* records: the rows the engine found, each once, in the engine's order,
\* however the engine cut them into batches; on an empty table it returns
\* the empty sequence without error.
C13_QuerySimilarCount ==
    (/\ last.op = "query_similar"
     /\ FloatsLen(last.vector) = EMBEDDING_DIM
     /\ last.failed = <<>>)
    => /\ last.result = "Ok"
       /\ Len(last.ret) = Min(last.limit, Len(rows))
       /\ \E p \in Nearest(last.vector, last.limit) :
              last.ret = [x \in DOMAIN p |-> RowRecord(rows[p[x]])]

C13_Witness ==
    /\ last.op = "query_similar"
    /\ last.result = "Ok"
    /\ Len(rows) = MaxRows
    /\ Len(last.ret) = MaxRows
    /\ last.ret[1].embedding # last.ret[2].embedding
    /\ \E p \in Nearest(last.vector, last.limit) :
          \E st \in Streams(tableSchema \o <<DistanceField>>,
                            [x \in DOMAIN p |-> rows[p[x]] \o <<Cell(0)>>]) :
              Len(st) >= 2 /\ DecodeStream(st).val = last.ret

\* C14: paths are matched literally, quotes included.  A get_embedding(p)
\* that returns a record returns one stored under exactly p, with its path
\* as it was inserted, and returns one whenever a row is stored under p and
\* the engine does not fail; a delete_embedding(p) that succeeds removes the
\* rows stored under exactly p and no other row, and one that fails removes
\* nothing.
C14_LiteralPaths ==
    /\ []((last.op = "get" /\ last.failed = <<>>)
          => /\ last.result = "Ok"
             /\ (last.ret = <<>>) = (PathRows(rows, last.path) = <<>>)
             /\ last.ret # <<>>
                => /\ last.ret[1].path = last.path
                   /\ \E i \in 1..Len(rows) :
                         rows[i][1].value = last.path /\ RowRecord(rows[i]) = last.ret[1])
    /\ [][last'.op \in {"delete", "update_delete"}
          => rows' = IF last'.result = "Ok" /\ last'.failed = <<>>
                     THEN OtherRows(rows, last'.path) ELSE rows]_vars

C14_Witness ==
    /\ last.op = "get"
    /\ last.path = PathQQ
    /\ last.ret # <<>>
    /\ last.ret[1].path = PathQQ
    /\ PathRows(rows, PathQ) # <<>>

\* C15: insert_embeddings of the empty batch returns success without a call
\* to the engine and leaves the table as it was, whatever the table holds.
C15_InsertEmpty ==
    [][(last'.op = "insert" /\ last'.records = <<>>)
       => /\ last'.result = "Ok"
          /\ last'.calls = <<>>
          /\ rows' = rows]_vars

C15_Witness ==
    /\ last.op = "insert"
    /\ last.records = <<>>
    /\ last.result = "Ok"
    /\ Len(rows) = MaxRows

\* some path of the batch rs is already among the rows rws or occurs twice in rs
HasDuplicate(rws, rs) ==
    \E i \in 1..Len(rs) :
        \/ PathRows(rws, rs[i].path) # <<>>
        \/ \E j \in 1..Len(rs) : j # i /\ rs[j].path = rs[i].path

\* every get_embedding(path) now returns one record, stored under path
GetReturnsOne(path) ==
    \A o \in get_embedding(path, FALSE) :
        /\ o.result = "Ok"
        /\ Len(o.ret) = 1
        /\ \E k \in 1..Len(rows) :
              rows[k][1].value = path /\ RowRecord(rows[k]) = o.ret[1]

\* the insert of the batch rs added a row for each of its records, and a
\* get of each of its paths returns one record stored under that path
AddedAll(rs) ==
    /\ last'.result = "Ok"
    /\ Len(rows') = Len(rows) + Len(rs)
    /\ \A i \in 1..Len(rs) :
          LET p == rs[i].path
          IN  /\ Len(PathRows(rows', p)) =
                    Len(PathRows(rows, p)) + Len(SelectSeq(rs, LAMBDA r : r.path = p))
              /\ Len(PathRows(rows', p)) >= 2
              /\ GetReturnsOne(p)'

\* C16: on a table whose embedding column has EMBEDDING_DIM floats, the
\* engine not failing, an insert_embeddings of valid records of which one
\* has a path that is already stored or that occurs twice in the batch
\* succeeds and adds a row for every record, so that the path has several
\* rows; a get_embedding of the path then returns exactly one of them.
C16_InsertDuplicates ==
    [][\A rs \in Batches :
         (/\ last'.op = "insert"
          /\ last'.records = rs
          /\ last'.failed = <<>>
          /\ \A i \in 1..Len(rs) : ~InvalidDim(rs[i])
          /\ HasDuplicate(rows, rs)
          /\ tableSchema[3].dt.size = EMBEDDING_DIM)
         => AddedAll(rs)]_vars

\* the same on a table that has the nine columns of the mapper
InsertDuplicatesNineColumns ==
    [][\A rs \in Batches :
         (/\ last'.op = "insert"
          /\ last'.records = rs
          /\ last'.failed = <<>>
          /\ \A i \in 1..Len(rs) : ~InvalidDim(rs[i])
          /\ HasDuplicate(rows, rs)
          /\ tableSchema = NineColumnSchema(EMBEDDING_DIM))
         => AddedAll(rs)]_vars

\* C17: connect opens the table when there is one and creates it only when
\* there is none: a connect, the first or a later one, successful or not,
\* leaves the rows and the columns of an existing table as they were.
C17_ConnectKeepsTable ==
    [][last'.op = "connect"
       => /\ rows' = rows
          /\ tableSchema # NoTable => tableSchema' = tableSchema
          /\ tableSchema = NoTable => tableSchema' \in {NoTable, build_embeddings_schema}
          /\ (last'.result = "Ok") = (tableSchema' # NoTable /\ last'.failed \in
                                         {<<>>, <<"open_table">>})]_vars

C17_Witness ==
    /\ last.op = "connect"
    /\ last.result = "Ok"
    /\ last.calls = <<"open_table">>
    /\ Len(rows) = MaxRows

\* caller c is between the delete and the insert of an update of path
InGap(c, path) == pending[c].active /\ pending[c].path = path

\* C18: update_embedding is a delete followed by an insert with other
\* callers running in between.  Its delete, when it succeeds, leaves no row
\* under the path and the update suspended; it returns only from there; a
\* get_embedding(path) or a query_similar that another caller makes while
\* the path has no row finds no record of the path; and the insert, made
\* when the path has no row, leaves at most one: the old and the new
\* version are never stored together.
C18_UpdateNotAtomic ==
    /\ [](\A c \in Callers :
             (/\ last.caller # c
              /\ InGap(c, pending[c].path)
              /\ PathRows(rows, pending[c].path) = <<>>
              /\ last.failed = <<>>)
             => /\ ((last.op = "get" /\ last.path = pending[c].path)
                      => last.result = "Ok" /\ last.ret = <<>>)
                /\ ((last.op = "query_similar" /\ last.result = "Ok")
                      => \A i \in 1..Len(last.ret) : last.ret[i].path # pending[c].path))
    /\ [][/\ (last'.op = "update_delete" /\ last'.failed = <<>>)
               => /\ PathRows(rows', last'.path) = <<>>
                  /\ pending'[last'.caller].active
                  /\ pending'[last'.caller].path = last'.path
          /\ (last'.op = "update" /\ last'.result # "PathMismatch")
              => /\ InGap(last'.caller, last'.path)
                 /\ (PathRows(rows, last'.path) = <<>>
                       => Len(PathRows(rows', last'.path)) <= 1)]_vars

C18_Witness ==
    /\ last.op = "get"
    /\ last.caller = "c2"
    /\ last.result = "Ok"
    /\ last.ret = <<>>
    /\ InGap("c1", last.path)
    /\ pending["c1"].removed >= 1
    /\ pending["c1"].failed = <<>>

\* no two rows of rws have the same path
Unique(rws) == \A i, j \in 1..Len(rws) : rws[i][1].value = rws[j][1].value => i = j

\* C19: with one writer, a table with at most one row per path still has
\* at most one row per path after every step of an update_embedding, every
\* delete_embedding, connect and read whose engine calls all succeeded;
\* the table starts empty, so a table written only through
\* update_embedding never holds two rows of one path.
C19_UniquePaths ==
    [][(/\ Unique(rows)
        /\ last'.op # "insert"
        /\ last'.failed = <<>>)
       => Unique(rows')]_vars

C19_Witness ==
    /\ last.op = "update"
    /\ last.result = "Ok"
    /\ last.failed = <<>>
    /\ last.removed = 1
    /\ Len(rows) = MaxRows
    /\ Unique(rows)

\* what query_similar makes of every stream in which the engine may
\* deliver all rows, batches without rows included: all their records
QuerySimilarDrainsStream ==
    tableSchema # NoTable =>
        \A st \in StreamsWithEmpty(tableSchema, rows) :
            /\ DecodeStream(st).ok
            /\ DecodeStream(st).val = [i \in 1..Len(rows) |-> RowRecord(rows[i])]

\* C20: the reads use every batch of the engine's stream: for each stored
\* row, whatever stream the engine delivers it in, also one whose first
\* batch has no rows, get_embedding returns the row's record, and
\* query_similar returns the records of all batches.
C20_ReadsDrainStream ==
    /\ QuerySimilarDrainsStream
    /\ \A i \in 1..Len(rows) :
          \A st \in StreamsWithEmpty(tableSchema, <<rows[i]>>) :
              /\ FirstBatch(st).result = "Ok"
              /\ FirstBatch(st).ret = <<RowRecord(rows[i])>>

\* the row that a table with the mapper's nine columns holds for record r
RecordRow(r) ==
    RowsOfBatch(create_record_batch(create_arrow_arrays(<<r>>).val,
                                    NineColumnSchema(EMBEDDING_DIM)).val)[1]

\* tables of up to MaxRows + 1 rows over three paths, two embeddings
TablesOfThreePaths ==
    SeqsUpTo({RecordRow(r) : r \in ValidRecords \cup {[RecQ EXCEPT !.path = PathA]}},
             MaxRows + 1)

\* on the table rws, where path is stored once, another path has the same
\* embedding and limit rows of other paths exist, some answer of the engine
\* makes query_similar_to_file(path, limit) return fewer than limit records
Shortfall(rws, path, limit) ==
    /\ Unique(rws)
    /\ Len(PathRows(rws, path)) = 1
    /\ Len(OtherRows(rws, path)) >= limit
    /\ \E i \in 1..Len(rws) :
          rws[i][1].value # path /\ rws[i][3] = PathRows(rws, path)[1][3]
    /\ \E k \in limit_plus_one(limit) :
          /\ k.ok
          /\ \E c \in NearestIn(rws, PathRows(rws, path)[1][3], k.val) :
                LET found == [x \in DOMAIN c |-> [path |-> rws[c[x]][1].value]]
                IN  Len(truncate(retain(found, path), limit)) < limit

\* C21 as stated: there is a table, the one the program holds now or any
\* over three paths, in which several paths, each stored once, share the
\* queried file's embedding and at least limit rows of other paths exist,
\* and yet query_similar_to_file(path, limit) returns fewer than limit
\* records.
C21_ShortfallExists ==
    \E rws \in TablesOfThreePaths \cup {rows}, path \in Paths, limit \in 0..(MaxLimit + 1) :
        Shortfall(rws, path, limit)

\* C21 amended: when every path is stored once and at least limit rows of
\* other paths exist, query_similar_to_file(path, limit) of a stored path,
\* the engine not failing, returns exactly limit records, also when other
\* paths share the queried file's embedding.
C21_NoShortfall ==
    (/\ last.op = "query_similar_to_file"
     /\ last.failed = <<>>
     /\ Unique(rows)
     /\ PathRows(rows, last.path) # <<>>
     /\ Len(OtherRows(rows, last.path)) >= last.limit)
    => /\ last.result = "Ok"
       /\ Len(last.ret) = last.limit

C21_Witness ==
    /\ last.op = "query_similar_to_file"
    /\ last.result = "Ok"
    /\ last.limit >= 1
    /\ Len(last.ret) = last.limit
    /\ Unique(rows)
    /\ \E i \in 1..Len(rows) :
          /\ rows[i][1].value # last.path
          /\ rows[i][3] = PathRows(rows, last.path)[1][3]

\* C22: the table that connect has just created has the nine columns that
\* the mapper's encode produces, with the same types in the same order, so
\* that the batch encoded from valid records is accepted against it.
C22_SchemaAgrees ==
    (/\ last.op = "connect"
     /\ last.result = "Ok"
     /\ last.calls = <<"open_table", "create_table">>)
    => \A rs \in SeqsUpTo(ValidRecords, MaxBatch) \ {<<>>} :
          LET arrays == create_arrow_arrays(rs).val
          IN  /\ Len(arrays) = 9
              /\ Len(tableSchema) = 9
              /\ \A j \in 1..9 : arrays[j].dt = tableSchema[j].dt
              /\ tableSchema[9].name = "content_preview"
              /\ create_record_batch(arrays, tableSchema).ok

\* C23: the record mapper is lossless over batches.  For the batch rs of
\* n >= 1 records with EMBEDDING_DIM-long embeddings that insert_embeddings
\* was given, row i of the encoded batch decodes to rs[i]; the flat
\* embedding column has n * EMBEDDING_DIM values and row i occupies the
\* positions [EMBEDDING_DIM * i, EMBEDDING_DIM * (i + 1)); the imported_by
\* offsets are the n + 1 cumulative counts starting at 0; an empty
\* imported_by decodes as empty, a content_preview None as None and
\* Some(s), Some("") included, as Some(s).
C23_MapperLossless ==
    (/\ last.op = "insert"
     /\ last.records # <<>>
     /\ \A i \in DOMAIN last.records : ~InvalidDim(last.records[i]))
    => LET rs == last.records
           n == Len(rs)
           enc == create_arrow_arrays(rs)
           batch == create_record_batch(enc.val, NineColumnSchema(EMBEDDING_DIM))
           decoded(i) == record_batch_to_embedding_record(batch.val, i)
       IN  /\ enc.ok
           /\ batch.ok
           /\ batch.val.num_rows = n
           /\ \A i \in 0..(n - 1) : decoded(i) = Ok(rs[i + 1])
           /\ FloatsLen(enc.val[3].values) = n * EMBEDDING_DIM
           /\ \A i \in 0..(n - 1) :
                 FloatsSlice(enc.val[3].values, EMBEDDING_DIM * i + 1, EMBEDDING_DIM * (i + 1))
                     = rs[i + 1].embedding
           /\ Len(enc.val[8].offsets) = n + 1
           /\ enc.val[8].offsets[1] = 0
           /\ \A i \in 1..n :
                 enc.val[8].offsets[i + 1] = enc.val[8].offsets[i] + Len(rs[i].imported_by)
           /\ \A i \in 0..(n - 1) :
                 /\ rs[i + 1].imported_by = <<>> => decoded(i).val.imported_by = <<>>
                 /\ rs[i + 1].content_preview = None => decoded(i).val.content_preview = None
                 /\ \A t \in {"", "fn main"} :
                       rs[i + 1].content_preview = Some(t)
                           => decoded(i).val.content_preview = Some(t)

\* a stored batch of two records: the first imports two files and has the
\* empty preview, the second imports nothing and has no preview
C23_Witness ==
    /\ last.op = "insert"
    /\ last.result = "Ok"
    /\ last.records = <<RecQ, RecQ2>>
    /\ create_arrow_arrays(last.records).val[8].offsets = <<0, 2, 2>>
    /\ Len(rows) = 2

\* schemas a result batch may carry: the table's own, the one connect
\* creates, the mapper's, and the mapper's with line_count stored as text
DriftSchemas ==
    ({tableSchema} \ {NoTable})
        \cup {build_embeddings_schema, NineColumnSchema(EMBEDDING_DIM),
              [NineColumnSchema(EMBEDDING_DIM) EXCEPT ![7] = Field("line_count", Utf8, FALSE)]}

\* C24: decode never panics.  For every batch and row index it returns the
\* row-out-of-bounds error when the index is not below the batch's row
\* count, the column-type-mismatch error when one of the nine positional
\* columns is absent or of another type than expected, and a record
\* otherwise.
C24_DecodeNeverPanics ==
    \A sch \in DriftSchemas, r \in ValidRecords, row_index \in 0..1 :
        LET batch == EngineBatch(sch, <<RecordRow(r)>>)
            expected == <<"Utf8", "Utf8", "FixedSizeList", "Utf8",
                          "Timestamp(Microsecond)", "Timestamp(Microsecond)",
                          "Int16", "List", "Utf8">>
            drift == \E k \in 1..9 : \/ k > Len(batch.columns)
                                     \/ batch.columns[k].dt.kind # expected[k]
            d == record_batch_to_embedding_record(batch, row_index)
        IN  /\ d.err # "Panic"
            /\ row_index >= batch.num_rows => d.err = "RowOutOfBounds"
            /\ (row_index < batch.num_rows /\ drift) => d.err = "CastError"
            /\ (row_index < batch.num_rows /\ ~drift) => d.ok

\* a step that deletes the rows of path: delete_embedding, or the delete of
\* update_embedding
DeletesPath(path) ==
    /\ last'.op \in {"delete", "update_delete"}
    /\ last'.path = path

\* C27: two update_embedding calls for one path by different callers can
\* interleave as delete, delete, insert, insert.  When a caller's update
\* returns success while the other caller, whose delete is done, has not
\* yet inserted its valid record, the other's insert, if no engine call
\* of it fails, also returns success and leaves two rows for the path;
\* rows of a path stored twice stay until a step deletes that path.
C27_ConcurrentUpdatesDuplicate ==
    [][/\ \A c \in Callers :
            (/\ pending[c].active
             /\ last.op = "update"
             /\ last.caller # c
             /\ last.result = "Ok"
             /\ last.path = pending[c].path
             /\ ~InvalidDim(pending[c].record)
             /\ ~pending'[c].active
             /\ last'.failed = <<>>)
            => /\ last'.op = "update"
               /\ last'.caller = c
               /\ last'.result = "Ok"
               /\ Len(PathRows(rows', last'.path)) >= 2
       /\ \A path \in Paths :
            (Len(PathRows(rows, path)) >= 2 /\ ~DeletesPath(path))
            => Len(PathRows(rows', path)) >= Len(PathRows(rows, path))]_vars

\* both updates stored RecQ, which no insert_embeddings call of the two
\* callers stores, and both rows are there after the second returned
C27_Witness ==
    /\ last.op = "update"
    /\ last.result = "Ok"
    /\ last.failed = <<>>
    /\ rows = <<RecordRow(RecQ), RecordRow(RecQ)>>

\* C28: update_embedding discards every error of its delete.  A step in
\* which update's delete fails returns nothing and leaves the update on its
\* way to the insert with the table as it was; when that insert of a valid
\* record then meets no engine failure, update returns success and the
\* path, whose old row is still stored, has one row more, two at least.
\* When the delete removed the old row and the insert fails, update
\* returns the insert's error and no row of the path is stored.
C28_DeleteErrorsDiscarded ==
    [][/\ \A c \in Callers :
            (/\ ~pending[c].active
             /\ last'.caller = c
             /\ last'.op \in {"update", "update_delete"}
             /\ last'.calls = <<"delete">>
             /\ last'.failed = <<"delete">>)
            => /\ last'.op = "update_delete"
               /\ pending'[c].active
               /\ rows' = rows
       /\ \A c \in Callers :
            (pending[c].active /\ ~pending'[c].active)
            => /\ (/\ pending[c].failed = <<"delete">>
                   /\ PathRows(rows, pending[c].path) # <<>>
                   /\ ~InvalidDim(pending[c].record)
                   /\ last'.failed = <<"delete">>)
                  => /\ last'.op = "update"
                     /\ last'.result = "Ok"
                     /\ last'.calls = <<"delete", "schema", "add">>
                     /\ Len(PathRows(rows', pending[c].path))
                            = Len(PathRows(rows, pending[c].path)) + 1
                     /\ Len(PathRows(rows', pending[c].path)) >= 2
               /\ (/\ pending[c].failed = <<>>
                   /\ pending[c].removed >= 1
                   /\ last'.result # "Ok")
                  => /\ last'.op = "update"
                     /\ last'.result \in {"EngineError", "InvalidDimension"}
                     /\ PathRows(rows', pending[c].path) = <<>>]_vars

\* update returned success although its delete failed, and the path is
\* stored twice
C28_Witness ==
    /\ last.op = "update"
    /\ last.result = "Ok"
    /\ last.failed = <<"delete">>
    /\ Len(PathRows(rows, last.path)) = 2

\* update returned the insert's error after its delete removed the old row
UpdateLosesRow ==
    /\ last.op = "update"
    /\ last.result = "EngineError"
    /\ last.removed >= 1
    /\ last.failed # <<>>
    /\ "delete" \notin {last.failed[i] : i \in DOMAIN last.failed}
    /\ PathRows(rows, last.path) = <<>>

\* C29: query_similar_to_file computes limit + 1 on usize.  Once the
\* queried path's record was found and no engine call failed, a limit below
\* USIZE_MAX gives the candidate count limit + 1 and the search is made
\* with success; the limit USIZE_MAX overflows, so the call either panics
\* before any search or searches for 0 candidates and returns no record,
\* whatever neighbours are stored.
C29_LimitPlusOneOverflow ==
    (/\ last.op = "query_similar_to_file"
     /\ last.failed = <<>>
     /\ last.result # "NotFound")
    => /\ last.limit < USIZE_MAX
          => /\ limit_plus_one(last.limit) = {Ok(last.limit + 1)}
             /\ last.result = "Ok"
             /\ last.calls = <<"query", "vector_search">>
       /\ last.limit = USIZE_MAX
          => /\ limit_plus_one(last.limit) = {Err("Panic"), Ok(0)}
             /\ \/ last.result = "Panic" /\ last.calls = <<"query">>
                \/ /\ last.result = "Ok"
                   /\ last.calls = <<"query", "vector_search">>
             /\ last.ret = <<>>

\* the wrapped count: the call succeeded with limit USIZE_MAX and returned
\* nothing although a record with another path is stored
C29_Witness ==
    /\ last.op = "query_similar_to_file"
    /\ last.limit = USIZE_MAX
    /\ last.result = "Ok"
    /\ last.ret = <<>>
    /\ Len(PathRows(rows, last.path)) = 1
    /\ OtherRows(rows, last.path) # <<>>

\* the checked build: the call with limit USIZE_MAX panicked
LimitPlusOnePanics ==
    /\ last.op = "query_similar_to_file"
    /\ last.limit = USIZE_MAX
    /\ last.result = "Panic"
    /\ OtherRows(rows, last.path) # <<>>

\* the first prompt of the batch that embed fails on, 0 if there is none
FirstFailure(prompts) ==
    LET fails == {i \in DOMAIN prompts : ~embed(prompts[i]).ok}
    IN  IF fails = {} THEN 0 ELSE CHOOSE k \in fails : \A m \in fails : k <= m

\* C25: embed_batch applies embed to its inputs one at a time in input
\* order.  When embed fails on none, it returns one vector per input, the
\* i-th being embed of the i-th input, and embed was called on the inputs
\* in their order; when the first failure is at element k, it returns the
\* error of embed on that element and no vector, and embed was called on
\* the first k inputs only.
C25_EmbedBatchSequential ==
    embedder.op = "embed_batch"
    => LET prompts == embedder.prompts
           k == FirstFailure(prompts)
       IN  IF k = 0
           THEN /\ embedder.result = "Ok"
                /\ Len(embedder.ret) = Len(prompts)
                /\ \A i \in DOMAIN prompts : embedder.ret[i] = embed(prompts[i]).val
                /\ embedder.invoked = prompts
           ELSE /\ embedder.result = embed(prompts[k]).err
                /\ embedder.result # "Ok"
                /\ embedder.ret = <<>>
                /\ embedder.invoked = SubSeq(prompts, 1, k)

\* a batch of three whose second prompt the tokenizer rejects: the first
\* vector was computed, the third prompt never reached embed
C25_Witness ==
    /\ embedder.op = "embed_batch"
    /\ Len(embedder.prompts) = 3
    /\ embed(embedder.prompts[1]).ok
    /\ embedder.prompts[2] = Text(Unencodable, 1)
    /\ embedder.result = "TokenizationError"
    /\ embedder.ret = <<>>
    /\ Len(embedder.invoked) = 2

\* a batch of three that embed_batch embedded in full, in order
EmbedBatchSucceeds ==
    /\ embedder.op = "embed_batch"
    /\ embedder.result = "Ok"
    /\ Len(embedder.ret) = 3
    /\ embedder.ret[1] # embedder.ret[2]

\* C26: embed truncates at MAX_LEN.  For a prompt whose tokenization, the
\* marker prepended, has more than MAX_LEN tokens, embed builds token ids
\* and attention mask of length MAX_LEN each, shaped [1, MAX_LEN], and
\* does not fail with a shape error; for at most MAX_LEN tokens both have
\* the tokenization's length.
C26_EmbedTruncates ==
    (/\ embedder.op = "embed"
     /\ Tokenizer_encode(format_encoder_only(embedder.prompts[1]), TRUE).ok)
    => LET n == FloatsLen(Tokenizer_encode(format_encoder_only(embedder.prompts[1]),
                                          TRUE).val.ids)
           inputs == embed_inputs(embedder.prompts[1])
           len == IF n > MAX_LEN THEN MAX_LEN ELSE n
       IN  /\ embedder.result # "ShapeError"
           /\ inputs.ok
           /\ FloatsLen(inputs.val.input_ids.data) = len
           /\ FloatsLen(inputs.val.attention_mask.data) = len
           /\ inputs.val.input_ids.shape = <<1, len>>
           /\ inputs.val.attention_mask.shape = <<1, len>>

\* the part of C26 for prompts of at most MAX_LEN tokens
EmbedWithinMaxLen ==
    (/\ embedder.op = "embed"
     /\ Tokenizer_encode(format_encoder_only(embedder.prompts[1]), TRUE).ok
     /\ FloatsLen(embedder.prompts[1]) + 3 <= MAX_LEN)
    => LET inputs == embed_inputs(embedder.prompts[1])
       IN  /\ embedder.result # "ShapeError"
           /\ inputs.ok
           /\ FloatsLen(inputs.val.input_ids.data) = FloatsLen(embedder.prompts[1]) + 3
           /\ inputs.val.input_ids.shape = <<1, FloatsLen(embedder.prompts[1]) + 3>>

\* an embed of exactly MAX_LEN tokens that reached the encoder
EmbedAtMaxLen ==
    /\ embedder.op = "embed"
    /\ embedder.result = "Ok"
    /\ FloatsLen(embed_inputs(embedder.prompts[1]).val.input_ids.data) = MAX_LEN

\* what every state of the daemon client satisfies
DaemonBounded ==
    /\ ollama.attempt <= PollAttempts
    /\ ollama.pc = "polling" => /\ ollama.attempt < PollAttempts
                                /\ ollama.poll # "Ok(true)"
    /\ ollama.result = "Ok" <=> ollama.poll = "Ok(true)"
    /\ ollama.result = "Timeout"
          <=> (ollama.pc # "polling" /\ ollama.attempt = PollAttempts
                                    /\ ollama.poll # "Ok(true)")
    /\ ollama.spawned # {} <=> ollama.daemon_process # None
    /\ ollama.daemon_process # None => ollama.spawned = {ollama.daemon_process[1]}
    /\ ollama.result = "SpawnError" => ollama.spawned = {} /\ ollama.attempt = 0
    /\ ollama.killed \subseteq ollama.spawned
    /\ ollama.pc = "dropped"
          => /\ ~ollama.killFailed => ollama.killed = ollama.spawned
             /\ ollama.spawned = {} => ollama.killed = {}
             /\ ollama.running \cap ollama.killed = {}
    /\ ollama.pc # "dropped" => ollama.killed = {}

\* what every step of the daemon client satisfies
DaemonSteps ==
    /\ ollama'.attempt \in {ollama.attempt, ollama.attempt + 1}
    /\ ollama'.attempt = ollama.attempt + 1 => ollama.pc = "polling"
    /\ (ollama'.attempt = ollama.attempt + 1 /\ ollama'.poll = "Ok(true)")
          => ollama'.pc = "returned" /\ ollama'.result = "Ok"
    /\ ollama.pc \in {"returned", "dropped"} => ollama'.attempt = ollama.attempt
    /\ ollama.spawned \subseteq ollama'.spawned
    /\ "external" \in ollama.running => "external" \in ollama'.running

\* C30: launch_daemon always terminates.  It polls at most PollAttempts
\* times, returns Ok at the first healthy poll and polls no more, returns
\* the timeout error when all PollAttempts polls failed; once the spawn
\* succeeded the child is in daemon_process, on timeout too, so that drop,
\* if its kill does not fail, kills the daemon this client launched and no
\* other process, and kills nothing when the client launched none.
C30_LaunchDaemonTerminates ==
    /\ []DaemonBounded
    /\ [][DaemonSteps]_vars
    /\ (ollama.pc = "polling") ~> (ollama.pc = "returned")

\* the client was dropped after launch_daemon timed out: its child is
\* killed, the daemon somebody else started is running
C30_Witness ==
    /\ ollama.pc = "dropped"
    /\ ollama.result = "Timeout"
    /\ ollama.attempt = PollAttempts
    /\ ollama.daemon_process = Some("child")
    /\ ollama.killed = {"child"}
    /\ ollama.running = {"external"}

\* launch_daemon returned Ok at its third poll
LaunchDaemonHealthy ==
    /\ ollama.pc = "returned"
    /\ ollama.result = "Ok"
    /\ ollama.attempt = 3

====
